---- MODULE Spec2Model ----
(***************************************************************************)
(* dataclass_type_validator: the recursive matcher (_validate_types and    *)
(* the functions it dispatches to), the aggregating validator              *)
(* (dataclass_type_validator) and the decorator that hooks the validator   *)
(* into a dataclass's construction (dataclass_validate).                   *)
(*                                                                         *)
(* Python values are records [type, atom, items, vals]: type is the name   *)
(* of type(value); atom tells values of one type apart; items holds a      *)
(* list's elements or a dict's keys (in iteration order); vals holds a     *)
(* dict's values.  Type annotations are records [meta, _name, __args__]:   *)
(* meta is "type" when isinstance(t, type), "_GenericAlias" when           *)
(* isinstance(t, typing._GenericAlias) and "other" when neither (a string  *)
(* forward reference, a TypeVar); _name is t._name (the class name for a   *)
(* class).  The result of a match is a record whose res is "None" (the     *)
(* function returned None), "str" (it returned a message) or               *)
(* "RuntimeError" (it raised).                                             *)
(***************************************************************************)
EXTENDS Integers, Sequences, FiniteSets, TLC

\* Longest list / largest dict among the values matched.
MaxLen == 2
\* Deepest nesting of the annotations matched (0: no type arguments).
MaxDepth == 1
\* Number of fields of the dataclass constructed.
NumFields == 3

VARIABLES
    \* -- one call of _validate_types
    m_type,             \* the annotation matched against (expected_type)
    m_value,            \* the value matched
    m_strict,           \* the strict flag of the call
    out,                \* what the call gave, NotCalled before it
    out_swapped,        \* the same call with a Union's alternatives swapped
    \* -- one construction of a decorated dataclass
    opt_strict,         \* dataclass_validate(strict=...)
    opt_before,         \* dataclass_validate(before_post_init=...)
    post_init,          \* the class's own __post_init__ (NoPostInit: it has none)
    field_types,        \* field.type of each field, in declaration order
    args,               \* the constructor's arguments
    target,             \* the instance: the current value of each field
    pc,                 \* where the construction is
    i,                  \* the validator's loop: fields matched so far
    errors,             \* the validator's errors dict: field -> message
    x,                  \* method_wrapper's x: what orig_method returned
    returned,           \* what method_wrapper returned
    log,                \* the steps taken so far, in order
    seen,               \* the field values the validator read, in order
    outcome             \* how the construction ended: [kind, errors]

match_vars == <<m_type, m_value, m_strict, out, out_swapped>>
ctor_vars == <<opt_strict, opt_before, post_init, field_types, args, target,
               pc, i, errors, x, returned, log, seen, outcome>>
vars == <<match_vars, ctor_vars>>

----------------------------------------------------------------------------
\* Python values

Atom(t, a) == [type |-> t, atom |-> a, items |-> <<>>, vals |-> <<>>]
PyList(s) == [type |-> "list", atom |-> "", items |-> s, vals |-> <<>>]
PyDict(ks, vs) == [type |-> "dict", atom |-> "", items |-> ks, vals |-> vs]
PyNone == Atom("NoneType", "None")

\* type(value): the class object of a value.
TypeOf(v) == Atom("type", v.type)

\* The classes a value's class inherits from, itself included.
Mro(t) == IF t = "bool" THEN {"bool", "int", "object"} ELSE {t, "object"}

\* isinstance(value, cls) for a class cls, given by name.
IsInstance(v, cls) == cls \in Mro(v.type)

\* callable(value): the value's class defines __call__.
Invocable(v) ==
    v.type \in {"function", "builtin_function_or_method", "method", "type", "Greeter"}

\* The keys and values of the dicts matched: 1, "a" and a lambda.
Elems == {Atom("int", "1"), Atom("str", "a"), Atom("function", "<lambda>")}

\* The other values matched on their own: True, a def function, len, a bound
\* method, the class int, an instance of a class with __call__, a tuple.
Scalars ==
    Elems \cup {Atom("bool", "True"), Atom("function", "f"),
                Atom("builtin_function_or_method", "len"),
                Atom("method", "a.upper"), Atom("type", "int"),
                Atom("Greeter", "g"), Atom("tuple", "(1,)")}

SeqsUpTo(S, n) == UNION {[1..k -> S] : k \in 0..n}

Injective(s) == \A a, b \in DOMAIN s : s[a] = s[b] => a = b

\* What lists hold: the elements above and the list ["a"].
Items == Elems \cup {PyList(<<Atom("str", "a")>>)}

Lists == {PyList(s) : s \in SeqsUpTo(Items, MaxLen)}

Dicts ==
    UNION {{PyDict(ks, vs) : ks \in {s \in [1..k -> Elems] : Injective(s)},
                             vs \in [1..k -> Elems]} : k \in 0..MaxLen}

Values == Scalars \cup Lists \cup Dicts

----------------------------------------------------------------------------
\* Type annotations

Class(n) == [meta |-> "type", _name |-> n, __args__ |-> <<>>]
Alias(n, a) == [meta |-> "_GenericAlias", _name |-> n, __args__ |-> a]
ForwardRef == [meta |-> "other", _name |-> "'int'", __args__ |-> <<>>]
NoType == [meta |-> "other", _name |-> "", __args__ |-> <<>>]

\* Annotations without type arguments of their own: int, Callable[..., Any],
\* Tuple[int, ...] (an alias the validator has no function for) and 'int'.
Leaves == {Class("int"), Alias("Callable", <<>>), Alias("Tuple", <<>>), ForwardRef}

RECURSIVE Annotations(_)
Annotations(d) ==
    IF d = 0 THEN Leaves
    ELSE LET sub == Annotations(d - 1) IN
         sub
         \cup {Alias("List", <<e>>) : e \in sub}
         \cup {Alias("Dict", <<k, v>>) : k \in Leaves, v \in sub}
         \cup {Alias("Union", <<a, b>>) : a \in Leaves, b \in sub}
         \cup {Alias("Union", <<a, b>>) : a \in sub, b \in Leaves}

----------------------------------------------------------------------------
\* The matcher

RECURSIVE _validate_types(_, _, _)

Result(r, text, t, received, errs, verrs) ==
    [res |-> r, text |-> text, expected |-> t, received |-> received,
     errors |-> errs, val_errors |-> verrs]

\* A function that returned None.
ReturnNone == Result("None", "", NoType, PyNone, <<>>, <<>>)

\* A function that returned a message: the f-string's text and what it embeds.
Message(text, t, received, errs, verrs) == Result("str", text, t, received, errs, verrs)

\* `if x` for a result x that is None or a str.
Truthy(r) == r.res = "str" /\ r.text # ""

Raises(r) == r.res = "RuntimeError"

\* The exception leaving a comprehension: that of the first call that raised.
FirstRaise(rs) ==
    rs[CHOOSE k \in DOMAIN rs : Raises(rs[k]) /\ \A j \in 1..(k - 1) : ~Raises(rs[j])]

AnyRaises(rs) == \E k \in DOMAIN rs : Raises(rs[k])

_validate_type(expected_type, value) ==
    IF ~IsInstance(value, expected_type._name)
    THEN Message("must be an instance of {expected_type}, but received {type(value)}",
                 expected_type, TypeOf(value), <<>>, <<>>)
    ELSE ReturnNone

\* _validate_typing_list, had it tolerated a single element error.
_validate_typing_list_gated(expected_type, value, strict) ==
    IF ~IsInstance(value, "list")
    THEN Message("must be an instance of array, but received {type(value)}",
                 NoType, TypeOf(value), <<>>, <<>>)
    ELSE LET expected_item_type == expected_type.__args__[1]
             all_errors == [k \in DOMAIN value.items |->
                               _validate_types(expected_item_type, value.items[k], strict)]
             item_errors == SelectSeq(all_errors, Truthy)
         IN  IF AnyRaises(all_errors) THEN FirstRaise(all_errors)
             ELSE IF Len(item_errors) > 1
             THEN Message("must be an instance of {expected_type}, but there are some errors: {errors}",
                          expected_type, PyNone, item_errors, <<>>)
             ELSE ReturnNone

_validate_typing_list(expected_type, value, strict) ==
    IF ~IsInstance(value, "list")
    THEN Message("must be an instance of array, but received {type(value)}",
                 NoType, TypeOf(value), <<>>, <<>>)
    ELSE LET expected_item_type == expected_type.__args__[1]
             all_errors == [k \in DOMAIN value.items |->
                               _validate_types(expected_item_type, value.items[k], strict)]
             item_errors == SelectSeq(all_errors, Truthy)
         IN  IF AnyRaises(all_errors) THEN FirstRaise(all_errors)
             ELSE IF Len(item_errors) > 0
             THEN Message("must be an instance of {expected_type}, but there are some errors: {errors}",
                          expected_type, PyNone, item_errors, <<>>)
             ELSE ReturnNone

\* _validate_typing_dict, had its first test read `or` for `and`.
_validate_typing_dict_or(expected_type, value, strict) ==
    IF ~IsInstance(value, "dict")
    THEN Message("must be an instance of dict, but received {type(value)}",
                 NoType, TypeOf(value), <<>>, <<>>)
    ELSE LET expected_key_type == expected_type.__args__[1]
             expected_value_type == expected_type.__args__[2]
             all_key_errors == [k \in DOMAIN value.items |->
                                   _validate_types(expected_key_type, value.items[k], strict)]
             key_errors == SelectSeq(all_key_errors, Truthy)
             all_val_errors == [k \in DOMAIN value.vals |->
                                   _validate_types(expected_value_type, value.vals[k], strict)]
             val_errors == SelectSeq(all_val_errors, Truthy)
         IN  IF AnyRaises(all_key_errors) THEN FirstRaise(all_key_errors)
             ELSE IF AnyRaises(all_val_errors) THEN FirstRaise(all_val_errors)
             ELSE IF Len(key_errors) > 0 \/ Len(val_errors) > 0
             THEN Message("must be an instance of {expected_type}, but there are some errors in keys and values. key errors: {key_errors}, value errors: {val_errors}",
                          expected_type, PyNone, key_errors, val_errors)
             ELSE ReturnNone

_validate_typing_dict(expected_type, value, strict) ==
    IF ~IsInstance(value, "dict")
    THEN Message("must be an instance of dict, but received {type(value)}",
                 NoType, TypeOf(value), <<>>, <<>>)
    ELSE LET expected_key_type == expected_type.__args__[1]
             expected_value_type == expected_type.__args__[2]
             all_key_errors == [k \in DOMAIN value.items |->
                                   _validate_types(expected_key_type, value.items[k], strict)]
             key_errors == SelectSeq(all_key_errors, Truthy)
             all_val_errors == [k \in DOMAIN value.vals |->
                                   _validate_types(expected_value_type, value.vals[k], strict)]
             val_errors == SelectSeq(all_val_errors, Truthy)
         IN  IF AnyRaises(all_key_errors) THEN FirstRaise(all_key_errors)
             ELSE IF AnyRaises(all_val_errors) THEN FirstRaise(all_val_errors)
             ELSE IF Len(key_errors) > 0 /\ Len(val_errors) > 0
             THEN Message("must be an instance of {expected_type}, but there are some errors in keys and values. key errors: {key_errors}, value errors: {val_errors}",
                          expected_type, PyNone, key_errors, val_errors)
             ELSE IF Len(key_errors) > 0
             THEN Message("must be an instance of {expected_type}, but there are some errors in keys: {key_errors}",
                          expected_type, PyNone, key_errors, <<>>)
             ELSE IF Len(val_errors) > 0
             THEN Message("must be an instance of {expected_type}, but there are some errors in values: {val_errors}",
                          expected_type, PyNone, <<>>, val_errors)
             ELSE ReturnNone

\* type(lambda a: a) is types.FunctionType, the class of def functions and lambdas.
_validate_typing_callable(expected_type, value, strict) ==
    IF ~IsInstance(value, "function")
    THEN Message("must be an instance of {expected_type._name}, but received {type(value)}",
                 Class(expected_type._name), TypeOf(value), <<>>, <<>>)
    ELSE ReturnNone

\* The keys of _validate_typing_mappings.
_validate_typing_mappings == {"List", "Dict", "Callable"}

\* str(expected_type).startswith('typing.Union')
StartsWithTypingUnion(expected_type) ==
    expected_type.meta = "_GenericAlias" /\ expected_type._name = "Union"

\* any(_validate_types(t, value, strict) is None for t in ts[k..]): "True",
\* "False", or the exception of the first alternative that raised before a
\* match was found; the generator stops at the first alternative that matches.
RECURSIVE AnyIsNone(_, _, _, _)
AnyIsNone(ts, k, value, strict) ==
    IF k > Len(ts) THEN Result("False", "", NoType, PyNone, <<>>, <<>>)
    ELSE LET r == _validate_types(ts[k], value, strict) IN
         IF Raises(r) THEN r
         ELSE IF r.res = "None" THEN Result("True", "", NoType, PyNone, <<>>, <<>>)
         ELSE AnyIsNone(ts, k + 1, value, strict)

\* _validate_sequential_types, had it raised without testing strict.
_validate_sequential_types_always_raise(expected_type, value, strict) ==
    IF expected_type._name \in _validate_typing_mappings
    THEN CASE expected_type._name = "List" ->
                  _validate_typing_list(expected_type, value, strict)
           [] expected_type._name = "Dict" ->
                  _validate_typing_dict(expected_type, value, strict)
           [] expected_type._name = "Callable" ->
                  _validate_typing_callable(expected_type, value, strict)
    ELSE IF StartsWithTypingUnion(expected_type)
    THEN LET is_valid == AnyIsNone(expected_type.__args__, 1, value, strict) IN
         IF Raises(is_valid) THEN is_valid
         ELSE IF is_valid.res = "False"
         THEN Message("must be an instance of {expected_type}, but received {value}",
                      expected_type, value, <<>>, <<>>)
         ELSE ReturnNone
    ELSE Result("RuntimeError", "Unknown type of {expected_type} (_name = {expected_type._name})",
                expected_type, PyNone, <<>>, <<>>)

_validate_sequential_types(expected_type, value, strict) ==
    IF expected_type._name \in _validate_typing_mappings
    THEN CASE expected_type._name = "List" ->
                  _validate_typing_list(expected_type, value, strict)
           [] expected_type._name = "Dict" ->
                  _validate_typing_dict(expected_type, value, strict)
           [] expected_type._name = "Callable" ->
                  _validate_typing_callable(expected_type, value, strict)
    ELSE IF StartsWithTypingUnion(expected_type)
    THEN LET is_valid == AnyIsNone(expected_type.__args__, 1, value, strict) IN
         IF Raises(is_valid) THEN is_valid
         ELSE IF is_valid.res = "False"
         THEN Message("must be an instance of {expected_type}, but received {value}",
                      expected_type, value, <<>>, <<>>)
         ELSE ReturnNone
    ELSE IF strict
    THEN Result("RuntimeError", "Unknown type of {expected_type} (_name = {expected_type._name})",
                expected_type, PyNone, <<>>, <<>>)
    ELSE ReturnNone

_validate_types(expected_type, value, strict) ==
    IF expected_type.meta = "type" THEN _validate_type(expected_type, value)
    ELSE IF expected_type.meta = "_GenericAlias"
    THEN _validate_sequential_types(expected_type, value, strict)
    ELSE ReturnNone

----------------------------------------------------------------------------
\* The decorated dataclass

\* The class's own __post_init__: whether it defines one, the field it
\* rewrites, the value it stores there and what it returns.
NoPostInit == [defined |-> FALSE, field |-> 0, value |-> PyNone, ret |-> PyNone]

\* How a construction ends: kind is "returned", "TypeValidationError" or
\* "RuntimeError"; errors is the mapping a TypeValidationError carries.
Running == [kind |-> "", errors |-> <<>>]

----------------------------------------------------------------------------
\* One call of the matcher

NotCalled == Result("", "", NoType, PyNone, <<>>, <<>>)

\* Union[A, B] with its alternatives in the other order.
Swapped(t) == Alias("Union", <<t.__args__[2], t.__args__[1]>>)

IsUnion(t) == StartsWithTypingUnion(t)

\* No construction is under way.
CtorIdle ==
    /\ opt_strict = FALSE /\ opt_before = FALSE /\ post_init = NoPostInit
    /\ field_types = <<>> /\ args = <<>> /\ target = <<>>
    /\ pc = "idle" /\ i = 0 /\ errors = <<>> /\ x = PyNone /\ returned = PyNone
    /\ log = <<>> /\ seen = <<>> /\ outcome = Running

InitMatch ==
    /\ m_type \in Annotations(MaxDepth)
    /\ m_value \in Values
    /\ m_strict \in BOOLEAN
    /\ out = NotCalled
    /\ out_swapped = NotCalled
    /\ CtorIdle

Match ==
    /\ out = NotCalled
    /\ out' = _validate_types(m_type, m_value, m_strict)
    /\ UNCHANGED <<m_type, m_value, m_strict, out_swapped, ctor_vars>>

MatchSwapped ==
    /\ out_swapped = NotCalled
    /\ IsUnion(m_type)
    /\ out_swapped' = _validate_types(Swapped(m_type), m_value, m_strict)
    /\ UNCHANGED <<m_type, m_value, m_strict, out, ctor_vars>>

NextMatch == Match \/ MatchSwapped

SpecMatch == InitMatch /\ [][NextMatch]_vars

----------------------------------------------------------------------------
\* One construction of a dataclass decorated with dataclass_validate

Fields == 1..NumFields

\* The annotations and values of the fields: int, str and Tuple[int, ...];
\* 1 and "a".  A field is named by its position in the declaration.
FieldTypes == {Class("int"), Class("str"), Alias("Tuple", <<>>)}
FieldValues == {Atom("int", "1"), Atom("str", "a")}

PostInits ==
    {NoPostInit} \cup
    {[defined |-> TRUE, field |-> f, value |-> v, ret |-> r] :
        f \in Fields, v \in FieldValues, r \in {PyNone, Atom("str", "r")}}

\* The method dataclass_validate replaced by method_wrapper.
wrapped_method_name ==
    IF opt_before \/ ~post_init.defined THEN "__init__" ELSE "__post_init__"

\* errors[field_name] = err
Put(d, k, v) == [j \in DOMAIN d \cup {k} |-> IF j = k THEN v ELSE d[j]]

Init ==
    /\ opt_strict \in BOOLEAN
    /\ opt_before \in BOOLEAN
    /\ post_init \in PostInits
    /\ field_types \in [Fields -> FieldTypes]
    /\ args \in [Fields -> FieldValues]
    /\ target = <<>>
    /\ pc = "call"
    /\ i = 0 /\ errors = <<>> /\ x = PyNone /\ returned = PyNone
    /\ log = <<>> /\ seen = <<>> /\ outcome = Running
    /\ m_type = NoType /\ m_value = PyNone /\ m_strict = FALSE
    /\ out = NotCalled /\ out_swapped = NotCalled

\* cls(*args): Python creates the instance and calls cls.__init__ on it.  When
\* __init__ is the wrapped method this enters method_wrapper, whose first
\* statement calls the original __init__.
Construct ==
    /\ pc = "call"
    /\ pc' = "__init__"
    /\ UNCHANGED <<opt_strict, opt_before, post_init, field_types, args, target,
                   i, errors, x, returned, log, seen, outcome, match_vars>>

\* The dataclass's __init__ returns None: into method_wrapper when __init__ is
\* the wrapped method, to the caller otherwise.
InitReturns ==
    IF wrapped_method_name = "__init__"
    THEN x' = PyNone /\ pc' = "validator" /\ outcome' = outcome
    ELSE x' = x /\ pc' = "done" /\ outcome' = [kind |-> "returned", errors |-> <<>>]

\* The class's own __post_init__ returns: into method_wrapper when
\* __post_init__ is the wrapped method, otherwise into the dataclass's
\* __init__, which ends there.
PostInitReturns ==
    IF wrapped_method_name = "__post_init__"
    THEN x' = post_init.ret /\ pc' = "validator" /\ outcome' = outcome
    ELSE InitReturns

\* The body of the __init__ that @dataclass generated: it assigns every field
\* from the arguments and then calls self.__post_init__() if the class has one
\* (method_wrapper, when __post_init__ is the wrapped method).
OrigInit ==
    /\ pc = "__init__"
    /\ target' = args
    /\ log' = Append(log, "__init__")
    /\ IF post_init.defined
       THEN pc' = "__post_init__" /\ UNCHANGED <<x, outcome>>
       ELSE InitReturns
    /\ UNCHANGED <<opt_strict, opt_before, post_init, field_types, args,
                   i, errors, returned, seen, match_vars>>

\* The body of the class's own __post_init__.
OrigPostInit ==
    /\ pc = "__post_init__"
    /\ target' = [target EXCEPT ![post_init.field] = post_init.value]
    /\ log' = Append(log, "__post_init__")
    /\ PostInitReturns
    /\ UNCHANGED <<opt_strict, opt_before, post_init, field_types, args,
                   i, errors, returned, seen, match_vars>>

\* method_wrapper calls dataclass_type_validator(self, strict=strict).
ValidatorStart ==
    /\ pc = "validator"
    /\ errors' = <<>>
    /\ i' = 0
    /\ seen' = <<>>
    /\ log' = Append(log, "validator")
    /\ pc' = "loop"
    /\ UNCHANGED <<opt_strict, opt_before, post_init, field_types, args, target,
                   x, returned, outcome, match_vars>>

\* ValidateField, had the loop raised TypeValidationError at the first error.
ValidateFieldFailFast ==
    /\ pc = "loop"
    /\ i < NumFields
    /\ LET field_name == i + 1
           field_value == target[field_name]
           err == _validate_types(field_types[field_name], field_value, opt_strict)
       IN  /\ seen' = Append(seen, field_value)
           /\ IF Raises(err)
              THEN /\ pc' = "done"
                   /\ outcome' = [kind |-> "RuntimeError", errors |-> <<>>]
                   /\ UNCHANGED <<i, errors>>
              ELSE IF err.res # "None"
              THEN /\ pc' = "done"
                   /\ i' = i + 1
                   /\ errors' = Put(errors, field_name, err)
                   /\ outcome' = [kind |-> "TypeValidationError",
                                  errors |-> Put(errors, field_name, err)]
              ELSE /\ i' = i + 1
                   /\ UNCHANGED <<pc, outcome, errors>>
    /\ UNCHANGED <<opt_strict, opt_before, post_init, field_types, args, target,
                   x, returned, log, match_vars>>

\* ValidateField, had the loop caught the matcher's RuntimeError and recorded
\* it as the field's error.
ValidateFieldCatches ==
    /\ pc = "loop"
    /\ i < NumFields
    /\ LET field_name == i + 1
           field_value == target[field_name]
           err == _validate_types(field_types[field_name], field_value, opt_strict)
       IN  /\ seen' = Append(seen, field_value)
           /\ i' = i + 1
           /\ errors' = IF err.res # "None" THEN Put(errors, field_name, err)
                        ELSE errors
           /\ UNCHANGED <<pc, outcome>>
    /\ UNCHANGED <<opt_strict, opt_before, post_init, field_types, args, target,
                   x, returned, log, match_vars>>

\* One turn of the loop over the fields; a RuntimeError raised by the match
\* leaves the validator, method_wrapper and the constructor.
ValidateField ==
    /\ pc = "loop"
    /\ i < NumFields
    /\ LET field_name == i + 1
           field_value == target[field_name]
           err == _validate_types(field_types[field_name], field_value, opt_strict)
       IN  /\ seen' = Append(seen, field_value)
           /\ IF Raises(err)
              THEN /\ pc' = "done"
                   /\ outcome' = [kind |-> "RuntimeError", errors |-> <<>>]
                   /\ UNCHANGED <<i, errors>>
              ELSE /\ i' = i + 1
                   /\ errors' = IF err.res # "None" THEN Put(errors, field_name, err)
                                ELSE errors
                   /\ UNCHANGED <<pc, outcome>>
    /\ UNCHANGED <<opt_strict, opt_before, post_init, field_types, args, target,
                   x, returned, log, match_vars>>

\* After the loop: raise TypeValidationError with the errors, or return.
ValidatorEnd ==
    /\ pc = "loop"
    /\ i = NumFields
    /\ IF Cardinality(DOMAIN errors) > 0
       THEN /\ pc' = "done"
            /\ outcome' = [kind |-> "TypeValidationError", errors |-> errors]
       ELSE /\ pc' = "return"
            /\ UNCHANGED outcome
    /\ UNCHANGED <<opt_strict, opt_before, post_init, field_types, args, target,
                   i, errors, x, returned, log, seen, match_vars>>

\* Return, had method_wrapper ended without `return x`.
ReturnDropsX ==
    /\ pc = "return"
    /\ returned' = PyNone
    /\ log' = Append(log, "return")
    /\ pc' = "done"
    /\ outcome' = [kind |-> "returned", errors |-> <<>>]
    /\ UNCHANGED <<opt_strict, opt_before, post_init, field_types, args, target,
                   i, errors, x, seen, match_vars>>

\* method_wrapper returns x; the construction then completes (through the
\* rest of the dataclass's __init__ when __post_init__ was the wrapped method).
Return ==
    /\ pc = "return"
    /\ returned' = x
    /\ log' = Append(log, "return")
    /\ pc' = "done"
    /\ outcome' = [kind |-> "returned", errors |-> <<>>]
    /\ UNCHANGED <<opt_strict, opt_before, post_init, field_types, args, target,
                   i, errors, x, seen, match_vars>>

Next ==
    \/ Construct
    \/ OrigInit
    \/ OrigPostInit
    \/ ValidatorStart
    \/ ValidateField
    \/ ValidatorEnd
    \/ Return

Spec == Init /\ [][Next]_vars

----------------------------------------------------------------------------
\* Properties of one construction (Spec)

\* The match of field f's current value against its annotation.
FieldMatch(f) == _validate_types(field_types[f], target[f], opt_strict)

FailingFields == {f \in Fields : FieldMatch(f).res = "str"}
RaisingFields == {f \in Fields : Raises(FieldMatch(f))}

\* The instance as the original initialization leaves it.
Initialized ==
    IF post_init.defined THEN [args EXCEPT ![post_init.field] = post_init.value]
    ELSE args

Count(s, e) == Cardinality({k \in DOMAIN s : s[k] = e})

\* C1: when no RuntimeError is raised, the validator matches every field, and
\* the errors of the TypeValidationError hold exactly one entry, the field's
\* message, for each field whose match returned a message and none for the
\* others; the validator returns normally iff no field failed.
C1_AggregationIsTotal ==
    (pc = "done" /\ outcome.kind # "RuntimeError") =>
        /\ i = NumFields
        /\ seen = target
        /\ outcome.kind \in {"returned", "TypeValidationError"}
        /\ outcome.kind = "returned" <=> FailingFields = {}
        /\ outcome.kind = "TypeValidationError" =>
              /\ DOMAIN outcome.errors = FailingFields
              /\ Cardinality(DOMAIN outcome.errors) = Cardinality(FailingFields)
              /\ \A f \in FailingFields : outcome.errors[f] = FieldMatch(f)

C1_Witness ==
    /\ pc = "done" /\ outcome.kind = "TypeValidationError"
    /\ Cardinality(DOMAIN outcome.errors) >= 2
    /\ Cardinality(DOMAIN outcome.errors) < NumFields

\* C3 (as claimed): with before_post_init = true and a class that defines
\* __post_init__, the validator runs after the fields are assigned and before
\* __post_init__, so the values it reads are the constructor's arguments.
C3_ValidatesBeforePostInit ==
    (opt_before /\ post_init.defined /\ Count(log, "validator") > 0) =>
        /\ log[1] = "__init__"
        /\ log[2] = "validator"
        /\ seen = SubSeq(args, 1, Len(seen))

\* C9: with the default options the construction runs the original
\* initialization unchanged (the class's __post_init__ included), then calls
\* the validator once, on the instance as initialized; it ends with
\* TypeValidationError iff a field fails, and otherwise method_wrapper
\* returns what the wrapped method returned.
C9_DefaultHookValidatesAfterInit ==
    (~opt_strict /\ ~opt_before) =>
        /\ Count(log, "validator") <= 1
        /\ Count(log, "validator") = 1 =>
              /\ target = Initialized
              /\ log = <<"__init__">>
                       \o (IF post_init.defined THEN <<"__post_init__">> ELSE <<>>)
                       \o <<"validator">>
                       \o (IF pc = "done" /\ outcome.kind = "returned"
                           THEN <<"return">> ELSE <<>>)
        /\ pc = "done" =>
              /\ Count(log, "validator") = 1
              /\ seen = Initialized
              /\ outcome.kind \in {"returned", "TypeValidationError"}
              /\ outcome.kind = "TypeValidationError" <=> FailingFields # {}
              /\ outcome.kind = "returned" =>
                    returned = (IF post_init.defined THEN post_init.ret ELSE PyNone)

C9_Witness ==
    /\ ~opt_strict /\ ~opt_before /\ pc = "done"
    /\ post_init.defined /\ post_init.ret # PyNone /\ target # args
    /\ outcome.kind = "returned" /\ returned = post_init.ret

\* C10: with strict = true the fields are matched in declaration order; the
\* first field whose match raises RuntimeError ends the pass: no later field
\* is matched, the errors recorded so far are dropped and the construction
\* ends with RuntimeError, not TypeValidationError.  TypeValidationError is
\* raised only when every field was matched, none raised and one failed.
C10_RaiseEndsThePass ==
    opt_strict =>
        /\ seen = SubSeq(target, 1, Len(seen))
        /\ (pc = "done" /\ RaisingFields # {}) =>
              /\ outcome.kind = "RuntimeError"
              /\ outcome.errors = <<>>
              /\ Len(seen) \in RaisingFields
              /\ \A f \in RaisingFields : Len(seen) <= f
              /\ i = Len(seen) - 1
        /\ outcome.kind = "RuntimeError" => RaisingFields # {}
        /\ outcome.kind = "TypeValidationError" =>
              /\ Len(seen) = NumFields
              /\ RaisingFields = {}
              /\ FailingFields # {}

C10_Witness ==
    /\ opt_strict /\ pc = "done" /\ outcome.kind = "RuntimeError"
    /\ Cardinality(DOMAIN errors) > 0
    /\ Len(seen) < NumFields

----------------------------------------------------------------------------
\* Properties of one call of the matcher (SpecMatch)

Called == out # NotCalled

\* An annotation that is neither a class nor a List, Dict, Callable or Union.
Unrecognized(t) ==
    ~(\/ t.meta = "type"
      \/ t.meta = "_GenericAlias" /\ t._name \in {"List", "Dict", "Callable", "Union"})

RECURSIVE ContainsUnrecognized(_)
ContainsUnrecognized(t) ==
    \/ Unrecognized(t)
    \/ \E k \in DOMAIN t.__args__ : ContainsUnrecognized(t.__args__[k])

IsList(t) == t.meta = "_GenericAlias" /\ t._name = "List"
IsDict(t) == t.meta = "_GenericAlias" /\ t._name = "Dict"
IsCallable(t) == t.meta = "_GenericAlias" /\ t._name = "Callable"

\* The matches of a list's elements, of a dict's keys and of a dict's values
\* against the annotation's type arguments, one by one.
ItemResults == [k \in DOMAIN m_value.items |->
                   _validate_types(m_type.__args__[1], m_value.items[k], m_strict)]
KeyResults == ItemResults
ValResults == [k \in DOMAIN m_value.vals |->
                  _validate_types(m_type.__args__[2], m_value.vals[k], m_strict)]

Fails(rs) == \E k \in DOMAIN rs : rs[k].res = "str"

KeysOnlyText == "must be an instance of {expected_type}, but there are some errors in keys: {key_errors}"
ValuesOnlyText == "must be an instance of {expected_type}, but there are some errors in values: {val_errors}"
BothText == "must be an instance of {expected_type}, but there are some errors in keys and values. key errors: {key_errors}, value errors: {val_errors}"

\* C2 (as claimed): with strict = true, matching a value against an annotation
\* that is, or contains under List, Dict or Union, an unrecognized annotation
\* raises RuntimeError, whatever the value.
C2_StrictUnrecognizedAlwaysRaises ==
    (Called /\ m_strict /\ ContainsUnrecognized(m_type)) => Raises(out)

\* C4 (as claimed): Union[A, B] and Union[B, A] give the same outcome for every
\* value and either strict setting (both None, both a message, both raise), and
\* the union matches iff the value matches A or matches B.
C4_UnionOrderIrrelevant ==
    (Called /\ out_swapped # NotCalled /\ IsUnion(m_type)) =>
        /\ out.res = out_swapped.res
        /\ out.res = "None" <=>
              \E k \in 1..2 :
                  _validate_types(m_type.__args__[k], m_value, m_strict).res = "None"

\* C5 (as claimed): matching against Callable returns None iff the value is
\* invocable (function, lambda, built-in, bound method, class, object with
\* __call__) and returns a message for every other value.
C5_CallableIffInvocable ==
    (Called /\ IsCallable(m_type)) =>
        /\ out.res = "None" <=> Invocable(m_value)
        /\ ~Invocable(m_value) => out.res = "str"

\* C6: matching against List[E] returns None iff the value is a list and every
\* element matches E; a list in which exactly one element fails and the others
\* match fails; the empty list matches; a value that is no list fails with the
\* container message, no element having been matched (nothing raised, no
\* element errors listed).
C6_ListIffAllElementsMatch ==
    (Called /\ IsList(m_type)) =>
        /\ out.res = "None" <=>
              /\ IsInstance(m_value, "list")
              /\ \A k \in DOMAIN ItemResults : ItemResults[k].res = "None"
        /\ ( /\ IsInstance(m_value, "list")
             /\ \E k \in DOMAIN ItemResults :
                   /\ ItemResults[k].res = "str"
                   /\ \A j \in DOMAIN ItemResults \ {k} : ItemResults[j].res = "None" )
           => out.res = "str"
        /\ (IsInstance(m_value, "list") /\ m_value.items = <<>>) => out.res = "None"
        /\ ~IsInstance(m_value, "list") =>
              /\ out.res = "str"
              /\ out.text = "must be an instance of array, but received {type(value)}"
              /\ out.errors = <<>>

C6_Witness ==
    /\ Called /\ IsList(m_type) /\ m_type.__args__[1] = Class("int")
    /\ IsInstance(m_value, "list") /\ Len(m_value.items) = 2
    /\ ItemResults[1].res = "None" /\ ItemResults[2].res = "str"
    /\ out.res = "str"

\* C7 (as claimed): for every Dict[K, V] and every dict, the outcome depends
\* only on which of the two pools (keys against K, values against V) holds a
\* failure: none gives None, keys only the keys message, values only the
\* values message, both the combined message; the three messages differ.
C7_DictOutcomeByPools ==
    (Called /\ IsDict(m_type) /\ IsInstance(m_value, "dict")) =>
        /\ (~Fails(KeyResults) /\ ~Fails(ValResults)) => out.res = "None"
        /\ (Fails(KeyResults) /\ ~Fails(ValResults)) =>
              (out.res = "str" /\ out.text = KeysOnlyText)
        /\ (~Fails(KeyResults) /\ Fails(ValResults)) =>
              (out.res = "str" /\ out.text = ValuesOnlyText)
        /\ (Fails(KeyResults) /\ Fails(ValResults)) =>
              (out.res = "str" /\ out.text = BothText)
        /\ KeysOnlyText # ValuesOnlyText /\ KeysOnlyText # BothText
        /\ ValuesOnlyText # BothText

\* C7 (amended): the same, for every dict none of whose key or value matches
\* raises RuntimeError (so for every dict when strict = false); when one of
\* them raises, the match raises and returns no message.
C7_DictOutcomeByPoolsUnlessRaise ==
    (Called /\ IsDict(m_type) /\ IsInstance(m_value, "dict")) =>
        IF AnyRaises(KeyResults) \/ AnyRaises(ValResults)
        THEN Raises(out) /\ m_strict
        ELSE /\ (~Fails(KeyResults) /\ ~Fails(ValResults)) => out.res = "None"
             /\ (Fails(KeyResults) /\ ~Fails(ValResults)) =>
                   /\ out.res = "str" /\ out.text = KeysOnlyText
                   /\ out.errors = SelectSeq(KeyResults, Truthy) /\ out.val_errors = <<>>
             /\ (~Fails(KeyResults) /\ Fails(ValResults)) =>
                   /\ out.res = "str" /\ out.text = ValuesOnlyText
                   /\ out.errors = <<>> /\ out.val_errors = SelectSeq(ValResults, Truthy)
             /\ (Fails(KeyResults) /\ Fails(ValResults)) =>
                   /\ out.res = "str" /\ out.text = BothText
                   /\ out.errors = SelectSeq(KeyResults, Truthy)
                   /\ out.val_errors = SelectSeq(ValResults, Truthy)
             /\ KeysOnlyText # ValuesOnlyText /\ KeysOnlyText # BothText
             /\ ValuesOnlyText # BothText

C7_Witness ==
    /\ Called /\ IsDict(m_type) /\ IsInstance(m_value, "dict")
    /\ m_type.__args__ = <<Class("int"), Class("int")>>
    /\ Len(m_value.items) = 2
    /\ Fails(KeyResults) /\ ~Fails(ValResults)
    /\ out.text = KeysOnlyText

\* C8: with strict = false, matching any value against an unrecognized
\* annotation returns None and raises nothing, so the validator records no
\* error for the field.
C8_NonStrictUnrecognizedPasses ==
    (Called /\ ~m_strict /\ Unrecognized(m_type)) => out = ReturnNone

C8_Witness ==
    /\ Called /\ ~m_strict /\ m_type = Alias("Tuple", <<>>)
    /\ m_value = Atom("str", "a") /\ out.res = "None"

====
